---- MODULE Spec2Model ----
(***************************************************************************)
(* Model of package taggo (bobg/taggo): Check, detectDefaultBranch,        *)
(* decomposeModpath and the version-tag handling they rely on.             *)
(*                                                                         *)
(* Go strings are modelled as sequences of one-character strings, so that  *)
(* prefix tests, regular-expression matches, semantic-version parsing and  *)
(* byte-wise string comparison are computed rather than assumed.           *)
(***************************************************************************)
EXTENDS Integers, Sequences, FiniteSets, TLC

(***************************************************************************)
(* Strings                                                                 *)
(***************************************************************************)

\* The characters that occur in the names of the model, in byte order:
\* '+' '-' '.' '/' (43, 45, 46, 47), the digits (48..57), the upper-case
\* letters (65..90) and the lower-case letters (97..122).
Punct == << "+", ",", "-", ".", "/" >>
Digits == << "0", "1", "2", "3", "4", "5", "6", "7", "8", "9" >>
Upper ==
  << "A", "B", "C", "D", "E", "F", "G", "H", "I", "J", "K", "L", "M",
     "N", "O", "P", "Q", "R", "S", "T", "U", "V", "W", "X", "Y", "Z" >>
Lower ==
  << "a", "b", "c", "d", "e", "f", "g", "h", "i", "j", "k", "l", "m",
     "n", "o", "p", "q", "r", "s", "t", "u", "v", "w", "x", "y", "z" >>

Chars ==
  {Punct[i] : i \in 1..5} \cup {Digits[i] : i \in 1..10}
    \cup {Upper[i] : i \in 1..26} \cup {Lower[i] : i \in 1..26}

\* The byte value of a character.
Byte ==
  [c \in Chars |->
     IF \E i \in 1..5 : Punct[i] = c
       THEN 42 + (CHOOSE i \in 1..5 : Punct[i] = c)
     ELSE IF \E i \in 1..10 : Digits[i] = c
       THEN 47 + (CHOOSE i \in 1..10 : Digits[i] = c)
     ELSE IF \E i \in 1..26 : Upper[i] = c
       THEN 64 + (CHOOSE i \in 1..26 : Upper[i] = c)
     ELSE 96 + (CHOOSE i \in 1..26 : Lower[i] = c)]

IsDigit(c) == Byte[c] >= 48 /\ Byte[c] <= 57
IsLetter(c) == (Byte[c] >= 65 /\ Byte[c] <= 90) \/ (Byte[c] >= 97 /\ Byte[c] <= 122)

\* s[from:] and s[:to] of Go, on 1-based sequences.
Drop(s, n) == SubSeq(s, n + 1, Len(s))
Take(s, n) == SubSeq(s, 1, n)

\* strings.HasPrefix, strings.HasSuffix, strings.TrimPrefix
HasPrefix(s, p) == Len(p) <= Len(s) /\ Take(s, Len(p)) = p
HasSuffix(s, p) == Len(p) <= Len(s) /\ Drop(s, Len(s) - Len(p)) = p
TrimPrefix(s, p) == IF HasPrefix(s, p) THEN Drop(s, Len(p)) ELSE s

\* The Go comparison  s < t  on strings: byte-wise lexicographic order.
RECURSIVE StrLess(_, _)
StrLess(s, t) ==
  IF t = <<>> THEN FALSE
  ELSE IF s = <<>> THEN TRUE
  ELSE IF Byte[Head(s)] # Byte[Head(t)] THEN Byte[Head(s)] < Byte[Head(t)]
  ELSE StrLess(Tail(s), Tail(t))

\* The number of leading digits of s.
RECURSIVE DigitRun(_)
DigitRun(s) ==
  IF s = <<>> \/ ~IsDigit(Head(s)) THEN 0 ELSE 1 + DigitRun(Tail(s))

\* strconv.Atoi on a string of digits.
RECURSIVE Atoi(_)
Atoi(s) ==
  IF s = <<>> THEN 0
  ELSE Atoi(Take(s, Len(s) - 1)) * 10 + (Byte[s[Len(s)]] - 48)

\* The index of the first c in s, or Len(s)+1 when there is none.
RECURSIVE IndexOf(_, _)
IndexOf(s, c) ==
  IF s = <<>> \/ Head(s) = c THEN 1 ELSE 1 + IndexOf(Tail(s), c)

(***************************************************************************)
(* golang.org/x/mod/semver, as Check uses it                               *)
(***************************************************************************)

NoParse == [ok |-> FALSE, major |-> <<>>, minor |-> <<>>, patch |-> <<>>,
            short |-> FALSE, prerelease |-> <<>>, build |-> <<>>]

\* semver.parseInt: a run of digits without a leading zero.
ParseIntOk(v) ==
  LET n == DigitRun(v) IN n >= 1 /\ (Head(v) = "0" => n = 1)

IsIdentChar(c) == IsDigit(c) \/ IsLetter(c) \/ c = "-"

\* semver.isBadNum: an all-digit identifier with a leading zero.
IsBadNum(v) == DigitRun(v) = Len(v) /\ Len(v) > 1 /\ Head(v) = "0"

\* Every dot-separated identifier of s is non-empty, made of identifier
\* characters and (when numeric is checked) not a bad number.
RECURSIVE IdentsOk(_, _)
IdentsOk(s, checkNum) ==
  LET i == IndexOf(s, ".")
      id == Take(s, i - 1)
  IN /\ id # <<>>
     /\ \A k \in 1..Len(id) : IsIdentChar(id[k])
     /\ (checkNum => ~IsBadNum(id))
     /\ (i <= Len(s) => IdentsOk(Drop(s, i), checkNum))

\* The leading run of digits of s, and what follows it.
Group(s) == Take(s, DigitRun(s))
After(s) == Drop(s, DigitRun(s))

\* semver.parse, after the patch number: rest is "", a prerelease and/or
\* build metadata; pre is the part of rest before any '+'.
ParseRest(major, minor, patch, rest, pre) ==
  IF pre # <<>> /\ (Head(pre) # "-" \/ ~IdentsOk(Tail(pre), TRUE)) THEN NoParse
  ELSE IF Len(pre) < Len(rest) /\ ~IdentsOk(Drop(rest, Len(pre) + 1), FALSE) THEN NoParse
  ELSE [ok |-> TRUE, major |-> major, minor |-> minor, patch |-> patch,
        short |-> FALSE, prerelease |-> pre, build |-> Drop(rest, Len(pre))]

\* semver.parse, after the minor number.
ParsePatch(major, minor, r2) ==
  IF r2 = <<>>
    THEN [ok |-> TRUE, major |-> major, minor |-> minor, patch |-> <<"0">>,
          short |-> TRUE, prerelease |-> <<>>, build |-> <<>>]
  ELSE IF Head(r2) # "." \/ ~ParseIntOk(Tail(r2)) THEN NoParse
  ELSE ParseRest(major, minor, Group(Tail(r2)), After(Tail(r2)),
                 Take(After(Tail(r2)), IndexOf(After(Tail(r2)), "+") - 1))

\* semver.parse, after the major number.
ParseMinor(major, r1) ==
  IF r1 = <<>>
    THEN [ok |-> TRUE, major |-> major, minor |-> <<"0">>, patch |-> <<"0">>,
          short |-> TRUE, prerelease |-> <<>>, build |-> <<>>]
  ELSE IF Head(r1) # "." \/ ~ParseIntOk(Tail(r1)) THEN NoParse
  ELSE ParsePatch(major, Group(Tail(r1)), After(Tail(r1)))

\* semver.parse
SemverParse(v) ==
  IF v = <<>> \/ Head(v) # "v" \/ ~ParseIntOk(Tail(v)) THEN NoParse
  ELSE ParseMinor(Group(Tail(v)), After(Tail(v)))

\* semver.compareInt
CompareInt(x, y) ==
  IF x = y THEN 0
  ELSE IF Len(x) < Len(y) THEN -1
  ELSE IF Len(x) > Len(y) THEN 1
  ELSE IF StrLess(x, y) THEN -1 ELSE 1

\* semver.nextIdent: the identifier that s starts with, up to the next '.'.
NextIdent(s) == Take(s, IndexOf(s, ".") - 1)

\* semver.isNum
IsNum(s) == DigitRun(s) = Len(s)

\* One round of semver.comparePrerelease on two different identifiers.
CompareIdent(dx, dy) ==
  IF IsNum(dx) # IsNum(dy) THEN (IF IsNum(dx) THEN -1 ELSE 1)
  ELSE IF IsNum(dx) /\ Len(dx) < Len(dy) THEN -1
  ELSE IF IsNum(dx) /\ Len(dx) > Len(dy) THEN 1
  ELSE IF StrLess(dx, dy) THEN -1 ELSE 1

\* semver.comparePrerelease; x and y start with '-' or '.' when non-empty.
RECURSIVE ComparePrereleaseLoop(_, _)
ComparePrereleaseLoop(x, y) ==
  IF x = <<>> \/ y = <<>>
    THEN IF x = <<>> THEN -1 ELSE 1
  ELSE IF NextIdent(Tail(x)) # NextIdent(Tail(y))
    THEN CompareIdent(NextIdent(Tail(x)), NextIdent(Tail(y)))
  ELSE ComparePrereleaseLoop(Drop(Tail(x), Len(NextIdent(Tail(x)))),
                             Drop(Tail(y), Len(NextIdent(Tail(y)))))

ComparePrerelease(x, y) ==
  IF x = y THEN 0
  ELSE IF x = <<>> THEN 1
  ELSE IF y = <<>> THEN -1
  ELSE ComparePrereleaseLoop(x, y)

\* The tag names of the model, with or without a leading "lib/".
v100 == <<"v","1",".","0",".","0">>
v123 == <<"v","1",".","2",".","3">>
v130 == <<"v","1",".","3",".","0">>
v130rc == <<"v","1",".","3",".","0","-","r","c">>
v130b == <<"v","1",".","3",".","0","+","b">>
v200 == <<"v","2",".","0",".","0">>
v2 == <<"v","2">>
v010 == <<"v","0",".","1",".","0">>
libv100 == <<"l","i","b","/","v","1",".","0",".","0">>
libv200 == <<"l","i","b","/","v","2",".","0",".","0">>
release == <<"r","e","l","e","a","s","e">>
v150 == <<"v","1",".","5",".","0">>
foobarv200 == <<"f","o","o","/","b","a","r","/","v","2",".","0",".","0">>
toolsgenv100 == <<"t","o","o","l","s","/","g","e","n","/","v","1",".","0",".","0">>


KnownVersions ==
  {v100, v123, v130, v130rc, v130b, v150, v200, v2, v010, libv100, libv200, release}

\* SemverParse, tabulated once for the names above.
SemverTable == [v \in KnownVersions |-> SemverParse(v)]
Parsed(v) == IF v \in KnownVersions THEN SemverTable[v] ELSE SemverParse(v)

\* semver.IsValid
IsValid(v) == Parsed(v).ok

\* semver.Prerelease
Prerelease(v) == Parsed(v).prerelease

\* semver.Compare, on the parsed versions.
CompareParsed(pv, pw) ==
  IF ~pv.ok /\ ~pw.ok THEN 0
  ELSE IF ~pv.ok THEN -1
  ELSE IF ~pw.ok THEN 1
  ELSE IF CompareInt(pv.major, pw.major) # 0 THEN CompareInt(pv.major, pw.major)
  ELSE IF CompareInt(pv.minor, pw.minor) # 0 THEN CompareInt(pv.minor, pw.minor)
  ELSE IF CompareInt(pv.patch, pw.patch) # 0 THEN CompareInt(pv.patch, pw.patch)
  ELSE ComparePrerelease(pv.prerelease, pw.prerelease)

\* semver.Compare
Compare(v, w) == CompareParsed(Parsed(v), Parsed(w))

\* The order semver.Sort sorts by: Compare, ties broken by string order.
VersionLess(v, w) ==
  IF Compare(v, w) # 0 THEN Compare(v, w) < 0 ELSE StrLess(v, w)

(***************************************************************************)
(* Names                                                                   *)
(***************************************************************************)

RefsHeads == <<"r","e","f","s","/","h","e","a","d","s","/">>
RefsRemotes == <<"r","e","f","s","/","r","e","m","o","t","e","s","/">>
RefsTags == <<"r","e","f","s","/","t","a","g","s","/">>

origin == <<"o","r","i","g","i","n">>
fork == <<"f","o","r","k">>
main == <<"m","a","i","n">>
master == <<"m","a","s","t","e","r">>
default == <<"d","e","f","a","u","l","t">>
dev == <<"d","e","v">>
HEAD == <<"H","E","A","D">>
rel1 == <<"r","e","l","-","1">>
qa == <<"q","a">>
upstream == <<"u","p","s","t","r","e","a","m">>

\* A tag message given with -m, and the words of the default message.
Note == <<"n","o","t","e">>
VersionWord == <<"V","e","r","s","i","o","n"," ">>
AddedByTaggo == <<" ","a","d","d","e","d"," ","b","y"," ","T","a","g","g","o">>

lib == <<"l","i","b">>
tools == <<"t","o","o","l","s">>
foobar == <<"f","o","o","/","b","a","r">>
toolsgen == <<"t","o","o","l","s","/","g","e","n">>

ExampleCom == <<"e","x","a","m","p","l","e",".","c","o","m">>
PathMod == ExampleCom \o <<"/","m","o","d">>
PathModV1 == PathMod \o <<"/","v","1">>
PathModV2 == PathMod \o <<"/","v","2">>
PathModV0 == PathMod \o <<"/","v","0">>
PathModV3 == PathMod \o <<"/","v","3">>
PathRepo == ExampleCom \o <<"/","r","e","p","o">>
PathRepoLib == PathRepo \o <<"/">> \o lib
PathRepoLibV2 == PathRepoLib \o <<"/","v","2">>
PathRepoFooBar == PathRepo \o <<"/">> \o foobar
PathRepoFooBarV2 == PathRepoFooBar \o <<"/","v","2">>
PathRepoToolsGen == PathRepo \o <<"/">> \o toolsgen

\* A Go map lookup: the zero value when the key is absent.
Lookup(m, k) == IF k \in DOMAIN m THEN m[k] ELSE ""

EmptyMap == [k \in {} |-> ""]


(***************************************************************************)
(* Helpers of Check                                                        *)
(***************************************************************************)

\* versionRegex  v([0-9]+)\.([0-9]+)\.([0-9]+)  matched at the start of a
\* string: the three digit groups, or <<>> when it does not match there.
\* c is what follows the second group.
RegexPatch(g1, g2, c) ==
  IF g2 = <<>> \/ c = <<>> \/ Head(c) # "." \/ Group(Tail(c)) = <<>> THEN <<>>
  ELSE <<g1, g2, Group(Tail(c))>>

\* b is what follows the first group.
RegexMinor(g1, b) ==
  IF g1 = <<>> \/ b = <<>> \/ Head(b) # "." THEN <<>>
  ELSE RegexPatch(g1, Group(Tail(b)), After(Tail(b)))

VersionRegexAt(s) ==
  IF s = <<>> \/ Head(s) # "v" THEN <<>>
  ELSE RegexMinor(Group(Tail(s)), After(Tail(s)))

\* versionRegex.FindStringSubmatch: the leftmost match (the regex is not
\* anchored), as the groups 1..3; <<>> when there is no match.
RECURSIVE versionRegex(_)
versionRegex(s) ==
  IF s = <<>> THEN <<>>
  ELSE IF VersionRegexAt(s) # <<>> THEN VersionRegexAt(s)
  ELSE versionRegex(Tail(s))

\* modpathVersionSuffixRegex  /v([1-9][0-9]*)$ : the 1-based index of the
\* '/' of the match, or 0 when there is no match.
modpathVersionSuffixRegex(modpath) ==
  LET starts == {i \in 1..Len(modpath) :
                   /\ modpath[i] = "/"
                   /\ i + 2 <= Len(modpath)
                   /\ modpath[i + 1] = "v"
                   /\ modpath[i + 2] # "0"
                   /\ DigitRun(Drop(modpath, i + 1)) = Len(modpath) - (i + 1)}
  IN IF starts = {} THEN 0 ELSE CHOOSE i \in starts : \A j \in starts : i <= j

\* decomposeModpath.  m[2], the start of the digit group, is the 0-based
\* offset i+1 when the '/' of the match is at 1-based index i.
decomposeModpath(modpath) ==
  LET i == modpathVersionSuffixRegex(modpath) IN
  IF i > 0
    THEN [baseModpath |-> Take(modpath, i + 1),
          suffixVersion |-> Atoi(Drop(modpath, i + 1)),
          hasVersionSuffix |-> TRUE]
    ELSE [baseModpath |-> modpath, suffixVersion |-> 0, hasVersionSuffix |-> FALSE]

\* VersionSuffixStatus with the case of the latest major version first.
VersionSuffixStatusLatestFirst(hasModpathVersionSuffix, modpathSuffixVersion, latestMajor) ==
  IF hasModpathVersionSuffix THEN
    IF modpathSuffixVersion = latestMajor THEN "ok"
    ELSE IF modpathSuffixVersion \in {0, 1} THEN "unwanted"
    ELSE "mismatch"
  ELSE IF latestMajor > 1 THEN "missing"
  ELSE "ok"

\* The switch of Check that sets Result.VersionSuffix.
VersionSuffixStatus(hasModpathVersionSuffix, modpathSuffixVersion, latestMajor) ==
  IF hasModpathVersionSuffix THEN
    IF modpathSuffixVersion \in {0, 1} THEN "unwanted"
    ELSE IF modpathSuffixVersion = latestMajor THEN "ok"
    ELSE "mismatch"
  ELSE IF latestMajor > 1 THEN "missing"
  ELSE "ok"

\* The ModpathMismatch test of Check.
ModpathMismatch(moduledir, baseModpath) ==
  moduledir # <<>> /\ ~HasSuffix(baseModpath, <<"/">> \o moduledir)

\* nonDefaultBranchRune
nonDefaultBranchRune(r) == ~(IsLetter(r) \/ IsDigit(r))

\* ContainsNonDefaultBranchRune that accepts every name.
ContainsNoRune(name) == FALSE

\* strings.ContainsFunc(name, nonDefaultBranchRune)
ContainsNonDefaultBranchRune(name) ==
  \E k \in 1..Len(name) : nonDefaultBranchRune(name[k])

\* SameHash without the comparison.
SameHashAlways(name, remoteRefs, heads) == TRUE

\* remoteRefs[name] == heads[name]
SameHash(name, remoteRefs, heads) == remoteRefs[name] = heads[name]

\* The loop over "main", "master", "default" of detectDefaultBranch: the
\* first of them that both sides have with the same hash, or <<>>.
RECURSIVE PreferredBranch(_, _, _)
PreferredBranch(names, remoteRefs, heads) ==
  IF names = <<>> THEN <<>>
  ELSE IF /\ Head(names) \in DOMAIN remoteRefs \cap DOMAIN heads
          /\ SameHash(Head(names), remoteRefs, heads)
    THEN Head(names)
  ELSE PreferredBranch(Tail(names), remoteRefs, heads)

\* detectDefaultBranch with "master" tried before "main".
detectDefaultBranchMasterFirst(remoteRefs, heads) ==
  LET candidates == DOMAIN remoteRefs \cap DOMAIN heads
      preferred == PreferredBranch(<<master, main, default>>, remoteRefs, heads)
  IN
  IF preferred # <<>> THEN preferred
  ELSE IF Cardinality(candidates) = 1 THEN
    LET name == CHOOSE n \in candidates : TRUE IN
    IF ContainsNonDefaultBranchRune(name) THEN <<>>
    ELSE IF SameHash(name, remoteRefs, heads) THEN name
    ELSE <<>>
  ELSE <<>>

\* detectDefaultBranch; <<>> is the empty string.
detectDefaultBranch(remoteRefs, heads) ==
  LET candidates == DOMAIN remoteRefs \cap DOMAIN heads
      preferred == PreferredBranch(<<main, master, default>>, remoteRefs, heads)
  IN
  IF preferred # <<>> THEN preferred
  ELSE IF Cardinality(candidates) = 1 THEN
    LET name == CHOOSE n \in candidates : TRUE IN
    IF ContainsNonDefaultBranchRune(name) THEN <<>>
    ELSE IF SameHash(name, remoteRefs, heads) THEN name
    ELSE <<>>
  ELSE <<>>


(***************************************************************************)
(* Bounds and input sets                                                   *)
(***************************************************************************)

\* The most lines of a ref listing.
MaxRefs == 4

Commits == {"c1", "c2"}
ModuleDirs == {<<>>, lib}
TagNames == {v100, v123, v130, v130rc, v200, v2, libv100}

\* The module paths that the go.mod file of the module in directory md may
\* declare.
GomodPaths(md) ==
  IF md = <<>> THEN {PathMod, PathModV0, PathModV1, PathModV2, PathModV3}
  ELSE {PathRepo, PathRepo \o <<"/">> \o md, PathRepo \o <<"/">> \o md \o <<"/","v","2">>}
Verdicts == {"None", "Patchlevel", "Minor", "Major"}

\* The ref names that "git show-ref" may print.
RefNames ==
  {RefsHeads \o main, RefsHeads \o dev}
    \cup {RefsRemotes \o origin \o <<"/">> \o main,
          RefsRemotes \o fork \o <<"/">> \o main,
          RefsRemotes \o fork \o <<"/">> \o dev}
    \cup {RefsTags \o t : t \in TagNames}

\* The listings of at most n lines over the given ref names: each name at
\* most once; the hash of a tag line is the commit that gitTagCommit
\* resolves the tag to.
ListingsOver(names, n) ==
  UNION {{{[name |-> x, hash |-> f[x]] : x \in d} : f \in [d -> Commits]}
           : d \in {y \in SUBSET names : Cardinality(y) <= n}}

Listings == ListingsOver(RefNames, MaxRefs)

\* The ref names of the listings without tags that exercise the detection
\* of the default branch.
BranchRefNames ==
  {RefsHeads \o b : b \in {main, master, default, dev, rel1}}
    \cup {RefsRemotes \o origin \o <<"/">> \o b
            : b \in {HEAD, main, master, default, dev, rel1}}
    \cup {RefsRemotes \o fork \o <<"/">> \o dev}

BranchListings == ListingsOver(BranchRefNames, MaxRefs)

\* The module directories and ref names of the repositories that exercise
\* the analysis of the module path: modules two levels down, major
\* versions 0, 1 and 2.
PathModuleDirs == {<<>>, lib, foobar, toolsgen}

PathRefNames ==
  {RefsHeads \o main, RefsRemotes \o origin \o <<"/">> \o main}
    \cup {RefsTags \o t : t \in {v010, v150, v200, libv200, foobarv200, toolsgenv100}}

PathListings == ListingsOver(PathRefNames, MaxRefs)

\* The ref names of the repositories that exercise the choice among branch
\* names: two plain names besides main, and one with punctuation.
NameRefNames ==
  {RefsHeads \o b : b \in {main, dev, qa, rel1}}
    \cup {RefsRemotes \o origin \o <<"/">> \o b : b \in {HEAD, main, dev, qa, rel1}}

NameListings == ListingsOver(NameRefNames, MaxRefs)

\* The ref names of the repositories that exercise the search through the
\* remotes: origin and two other remotes, each with a branch of its own.
RemoteRefNames ==
  {RefsHeads \o b : b \in {main, dev, qa}}
    \cup {RefsRemotes \o origin \o <<"/">> \o main,
          RefsRemotes \o fork \o <<"/">> \o dev,
          RefsRemotes \o upstream \o <<"/">> \o qa,
          RefsTags \o v100}

RemoteListings == ListingsOver(RemoteRefNames, MaxRefs)

\* The repositories that the command is run on: the modules in the root
\* and in lib, one branch, one remote, a version tag for each module.
RunModuleDirs == {<<>>, lib}

RunRefNames ==
  {RefsHeads \o main, RefsRemotes \o origin \o <<"/">> \o main,
   RefsTags \o v100, RefsTags \o libv100}

RunListings == ListingsOver(RunRefNames, MaxRefs)

\* The module directories and ref names of the repositories that exercise
\* the version prefix: tags under lib/, under tools/gen/, under Lib/ and
\* libx/, and a tag under lib/ that is no version.
PrefixModuleDirs == {<<>>, lib, tools}

PrefixRefNames ==
  {RefsHeads \o main}
    \cup {RefsTags \o t : t \in {v100, libv100, toolsgenv100,
                                 <<"L","i","b","/">> \o v100,
                                 <<"l","i","b","x","/">> \o v100,
                                 <<"l","i","b","/">> \o release}}

PrefixListings == ListingsOver(PrefixRefNames, MaxRefs)

\* The lines of the listings that exercise the reading of the output of
\* "git show-ref": besides lines of a hash and a name, a line of a hash
\* alone and a line of three fields.
LineRefNames ==
  {RefsHeads \o main, RefsRemotes \o origin \o <<"/">> \o main, RefsTags \o v100,
   RefsTags \o v200 \o <<" ", "x">>, <<>>}

LineListings == ListingsOver(LineRefNames, MaxRefs)

\* The repositories that tags are added to: one branch, one remote, for
\* the root module a release, the same release with build metadata and its
\* release candidate; the module in lib has no version yet.
TagRefNames ==
  {RefsHeads \o main, RefsRemotes \o origin \o <<"/">> \o main}
    \cup {RefsTags \o t : t \in {v130, v130b, v130rc}}

TagListings == ListingsOver(TagRefNames, MaxRefs)

\* Outputs of "git status --porcelain": nothing, an untracked file, a
\* modified file, both.
Untracked == <<"?", "?", " ", "a">>
Modified == <<" ", "M", " ", "b">>
PorcelainOutputs == {<<>>, <<Untracked>>, <<Modified>>, <<Untracked, Modified>>}

(***************************************************************************)
(* State                                                                   *)
(***************************************************************************)

VARIABLES
  pc,         \* position in Check: "refs", "latest", "gomod", "branch",
              \* "recommend", "done"
  moduledir,  \* the moduledir argument, relative to the repository
  refs,       \* the (name, hash) lines that git show-ref prints
  heads,      \* Check's heads map
  remotes,    \* Check's remotes map: remote -> ref -> hash
  versions,   \* Check's versions map: stripped tag name -> commit
  result,     \* the Result being built
  err,        \* the error Check returns, "" for nil
  calls,      \* the number of modver.CompareGit calls made
  prior,      \* <<the outcome of the previous call of Check on the same
              \* inputs>>, <<>> when there was none
  cpc,        \* position in the command: "lib" (Check was called as a
              \* library function), "start", "check", "all", "report",
              \* "return", "exit"
  flags,      \* the flags -add, -all, -status, -s and -m of the command
  porcelain,  \* the lines that "git status --porcelain" prints
  todo,       \* the module directories that modules.Each has yet to visit
  checked,    \* the calls of Check that CheckAll has made: directory and error
  modules,    \* the map that CheckAll builds: module directory -> Result
  allErr,     \* the error that CheckAll returns, "" for nil
  pending,    \* the entries of the map that run has yet to range over
  warnings,   \* the number of warnings that Describe has emitted
  tagged,     \* the "git tag" commands that have run, and whether each
              \* succeeded
  runErr,     \* the error that run returns: its tree in the order in which
              \* errors.As visits it, <<>> for nil
  exitCode    \* the exit status of the process, -1 while it runs

\* The state of the command.
cliVars == <<cpc, flags, porcelain, todo, checked, modules, allErr, pending,
             warnings, tagged, runErr, exitCode>>

vars == <<pc, moduledir, refs, heads, remotes, versions, result, err, calls,
          prior, cliVars>>

\* The zero value of Result.
ZeroResult ==
  [DefaultBranch |-> <<>>, LatestVersion |-> <<>>, LatestCommit |-> "",
   LatestCommitHasLatestVersion |-> FALSE, LatestCommitHasVersionTag |-> FALSE,
   LatestMajor |-> 0, LatestMinor |-> 0, LatestPatch |-> 0,
   LatestVersionIsPrerelease |-> FALSE, LatestVersionUnstable |-> FALSE,
   Modpath |-> <<>>, ModpathMismatch |-> FALSE, ModuleSubdir |-> <<>>,
   ModverResultCode |-> "None", ModverResultString |-> "",
   NewMajor |-> 0, NewMinor |-> 0, NewPatch |-> 0,
   VersionPrefix |-> <<>>, VersionSuffix |-> ""]

\* No flag is set.
NoFlags == [add |-> FALSE, all |-> FALSE, status |-> FALSE, sign |-> FALSE, msg |-> <<>>]

\* The state of the command when Check is called as a library function.
NoCommand ==
  /\ cpc = "lib"
  /\ flags = NoFlags
  /\ porcelain = <<>>
  /\ todo = <<>>
  /\ checked = <<>>
  /\ modules = EmptyMap
  /\ allErr = ""
  /\ pending = {}
  /\ warnings = 0
  /\ tagged = <<>>
  /\ runErr = <<>>
  /\ exitCode = -1

\* The state at the call of Check for the module in md of a repository
\* whose refs are one of the given listings.
InitWith(dirs, listings) ==
  /\ pc = "refs"
  /\ moduledir \in dirs
  /\ refs \in listings
  /\ heads = EmptyMap
  /\ remotes = EmptyMap
  /\ versions = EmptyMap
  /\ result = ZeroResult
  /\ err = ""
  /\ calls = 0
  /\ prior = <<>>
  /\ NoCommand

Init == InitWith(ModuleDirs, Listings)

\* The state at the start of the command: the flags, the module directory
\* (without -all) and the repository; Check has not been called.
InitRun ==
  /\ pc = "idle"
  /\ flags \in [add : BOOLEAN, all : BOOLEAN, status : BOOLEAN,
                 sign : {FALSE}, msg : {<<>>}]
  /\ moduledir \in (IF flags.all THEN {<<>>} ELSE RunModuleDirs)
  /\ refs \in RunListings
  /\ porcelain \in (IF flags.add THEN PorcelainOutputs ELSE {<<>>})
  /\ heads = EmptyMap
  /\ remotes = EmptyMap
  /\ versions = EmptyMap
  /\ result = ZeroResult
  /\ err = ""
  /\ calls = 0
  /\ prior = <<>>
  /\ cpc = "start"
  /\ todo = <<>>
  /\ checked = <<>>
  /\ modules = EmptyMap
  /\ allErr = ""
  /\ pending = {}
  /\ warnings = 0
  /\ tagged = <<>>
  /\ runErr = <<>>
  /\ exitCode = -1

\* The state at the start of the command with -add and without -status in
\* a clean repository, with and without -s and -m.
InitTag ==
  /\ pc = "idle"
  /\ flags \in [add : {TRUE}, all : BOOLEAN, status : {FALSE},
                 sign : BOOLEAN, msg : {<<>>, Note}]
  /\ moduledir \in (IF flags.all THEN {<<>>} ELSE RunModuleDirs)
  /\ refs \in TagListings
  /\ porcelain = <<>>
  /\ heads = EmptyMap
  /\ remotes = EmptyMap
  /\ versions = EmptyMap
  /\ result = ZeroResult
  /\ err = ""
  /\ calls = 0
  /\ prior = <<>>
  /\ cpc = "start"
  /\ todo = <<>>
  /\ checked = <<>>
  /\ modules = EmptyMap
  /\ allErr = ""
  /\ pending = {}
  /\ warnings = 0
  /\ tagged = <<>>
  /\ runErr = <<>>
  /\ exitCode = -1

\* Repositories with tags under several prefixes.
InitPrefix == InitWith(PrefixModuleDirs, PrefixListings)

\* Listings with lines that are not a hash and a name.
InitLines == InitWith({<<>>}, LineListings)

\* Repositories without tags, with more branches and remote refs.
InitBranches == InitWith({<<>>}, BranchListings)

\* Repositories with modules in more directories.
InitPaths == InitWith(PathModuleDirs, PathListings)

\* Repositories with more branch names.
InitNames == InitWith({<<>>}, NameListings)

\* Repositories with more remotes.
InitRemotes == InitWith({<<>>}, RemoteListings)

(***************************************************************************)
(* Check                                                                   *)
(***************************************************************************)

\* strings.Fields on the part of a line after its first field: the runs of
\* characters other than the space.
RECURSIVE SplitSpaces(_)
SplitSpaces(s) ==
  IF s = <<>> THEN <<>>
  ELSE IF Head(s) = " " THEN SplitSpaces(Tail(s))
  ELSE <<Take(s, IndexOf(s, " ") - 1)>> \o SplitSpaces(Drop(s, IndexOf(s, " ") - 1))

\* strings.Fields(line) for a line of "git show-ref": the hash and the
\* fields of what follows it.
Fields(l) == <<l.hash>> \o SplitSpaces(l.name)

\* gitRefs that takes the first two fields of every line that has them.
gitRefsFirstTwo(lines) ==
  {[name |-> Fields(l)[2], hash |-> Fields(l)[1]]
     : l \in {x \in lines : Len(Fields(x)) >= 2}}

\* gitRefs, lines 24-35: the (name, hash) pairs that the callback is called
\* with; a line that has not exactly two fields is skipped.
gitRefs(lines) ==
  {[name |-> Fields(l)[2], hash |-> Fields(l)[1]]
     : l \in {x \in lines : Len(Fields(x)) = 2}}

\* versionPrefix: moduledir + "/" for a module in a subdirectory.
VersionPrefixOf(md) == IF md # <<>> THEN md \o <<"/">> ELSE <<>>

\* The gitRefs callback, case refs/heads/: heads[name] = hash.  Ref names
\* are unique in a listing, so the maps do not depend on the line order.
HeadsOf(rs) ==
  LET hs == {r \in rs : HasPrefix(r.name, RefsHeads)} IN
  [n \in {TrimPrefix(r.name, RefsHeads) : r \in hs} |->
     (CHOOSE r \in hs : TrimPrefix(r.name, RefsHeads) = n).hash]

\* The gitRefs callback, case refs/remotes/: split on the first "/" into
\* remote and ref; a name without "/" is dropped.
RemotesOf(rs) ==
  LET split(r) ==
        LET name == TrimPrefix(r.name, RefsRemotes)
            i == IndexOf(name, "/")
        IN [remote |-> Take(name, i - 1), remoteRef |-> Drop(name, i),
            two |-> i <= Len(name), hash |-> r.hash]
      es == {e \in {split(r) : r \in {x \in rs : HasPrefix(x.name, RefsRemotes)}}
               : e.two}
  IN [rem \in {e.remote : e \in es} |->
        [ref \in {e.remoteRef : e \in {x \in es : x.remote = rem}} |->
           (CHOOSE e \in es : e.remote = rem /\ e.remoteRef = ref).hash]]

\* IsVersionTag without the test of the prefix.
IsVersionTagAnyPrefix(name, versionPrefix) ==
  IsValid(TrimPrefix(name, versionPrefix))

\* Whether the gitRefs callback, case refs/tags/, records the tag name as a
\* version of the module.
IsVersionTag(name, versionPrefix) ==
  IF versionPrefix # <<>> /\ ~HasPrefix(name, versionPrefix) THEN FALSE
  ELSE IsValid(TrimPrefix(name, versionPrefix))

\* The versions map: stripped tag name -> commit.
VersionsOf(rs, versionPrefix) ==
  LET ts == {r \in rs : /\ HasPrefix(r.name, RefsTags)
                        /\ IsVersionTag(TrimPrefix(r.name, RefsTags), versionPrefix)}
      strip(r) == TrimPrefix(TrimPrefix(r.name, RefsTags), versionPrefix)
  IN [n \in {strip(r) : r \in ts} |-> (CHOOSE r \in ts : strip(r) = n).hash]

\* Check, lines 86-149: record the subdirectory and prefix, list the refs.
\* gitRefs fails when the git command or the resolution of a tag fails.
CheckRefs ==
  /\ pc = "refs"
  /\ \/ /\ heads' = HeadsOf(gitRefs(refs))
        /\ remotes' = RemotesOf(gitRefs(refs))
        /\ versions' = VersionsOf(gitRefs(refs), VersionPrefixOf(moduledir))
        /\ err' = ""
        /\ pc' = "latest"
     \/ /\ err' = "getting refs"
        /\ pc' = "done"
        /\ UNCHANGED <<heads, remotes, versions>>
  /\ result' = [result EXCEPT !.ModuleSubdir = moduledir,
                              !.VersionPrefix = VersionPrefixOf(moduledir)]
  /\ UNCHANGED <<moduledir, refs, calls, prior, cliVars>>

\* The orders in which maps.Keys may return the keys of a map.
RECURSIVE KeyOrders(_)
KeyOrders(S) ==
  IF S = {} THEN {<<>>}
  ELSE UNION {{<<x>> \o rest : rest \in KeyOrders(S \ {x})} : x \in S}

\* semver.Sort
SemverSort(list) == SortSeq(list, VersionLess)

\* versionTags[len(versionTags)-1] after semver.Sort(versionTags); the empty
\* string when there are no version tags.
LatestOf(versionTags) ==
  IF Len(versionTags) > 0 THEN SemverSort(versionTags)[Len(versionTags)] ELSE <<>>

\* The Result fields of lines 173-178 for the latest version and the groups
\* m that versionRegex finds in it.
LatestFields(r, latestVersion, m) ==
  [r EXCEPT
     !.LatestVersion = latestVersion,
     !.LatestMajor = Atoi(m[1]),
     !.LatestMinor = Atoi(m[2]),
     !.LatestPatch = Atoi(m[3]),
     !.LatestVersionIsPrerelease = (Prerelease(latestVersion) # <<>>),
     !.LatestVersionUnstable = (Atoi(m[1]) = 0 \/ Prerelease(latestVersion) # <<>>)]

\* Check, lines 151-178: the latest version and its components.
CheckLatest ==
  /\ pc = "latest"
  /\ \E latestVersion \in {LatestOf(versionTags) : versionTags \in KeyOrders(DOMAIN versions)} :
       IF latestVersion # <<>> THEN
         IF versionRegex(latestVersion) = <<>> THEN
           /\ err' = "parsing version"
           /\ pc' = "done"
           /\ UNCHANGED result
         ELSE
           /\ result' = LatestFields(result, latestVersion, versionRegex(latestVersion))
           /\ pc' = "gomod"
           /\ UNCHANGED err
       ELSE
         /\ pc' = "gomod"
         /\ UNCHANGED <<result, err>>
  /\ UNCHANGED <<moduledir, refs, heads, remotes, versions, calls, prior, cliVars>>

\* Check, lines 180-214: read go.mod, classify the version suffix of the
\* module path and compare the path with the subdirectory.
CheckModpath ==
  /\ pc = "gomod"
  /\ \/ \E modpath \in GomodPaths(moduledir) :
          LET d == decomposeModpath(modpath) IN
          /\ result' = [result EXCEPT
                !.Modpath = modpath,
                !.VersionSuffix =
                   VersionSuffixStatus(d.hasVersionSuffix, d.suffixVersion,
                                       result.LatestMajor),
                !.ModpathMismatch = ModpathMismatch(moduledir, d.baseModpath)]
          /\ pc' = "branch"
          /\ UNCHANGED err
     \/ /\ err' = "reading go.mod"
        /\ pc' = "done"
        /\ UNCHANGED result
  /\ UNCHANGED <<moduledir, refs, heads, remotes, versions, calls, prior, cliVars>>

\* DefaultBranches without the first try on origin.
DefaultBranchesAnyRemote(rm, hd) ==
  LET others == {detectDefaultBranch(rm[r], hd) : r \in DOMAIN rm} \ {<<>>}
  IN IF others = {} THEN {<<>>} ELSE others

\* The names that the search of Check for a default branch can end with:
\* origin's answer if there is one, else the answer of whichever remote the
\* range over the remotes map reaches first among those that have one.
DefaultBranches(rm, hd) ==
  LET first == detectDefaultBranch(IF origin \in DOMAIN rm THEN rm[origin] ELSE EmptyMap, hd)
      others == {detectDefaultBranch(rm[r], hd) : r \in DOMAIN rm} \ {<<>>}
  IN IF first # <<>> THEN {first}
     ELSE IF others = {} THEN {<<>>}
     ELSE others

\* latestCommitHasLatestVersion: versions[latestVersion] == latestCommit.
TipHasLatestVersion(vs, latestVersion, latestCommit) ==
  Lookup(vs, latestVersion) = latestCommit

\* TipHasVersionTag without the loop over the other versions.
TipHasVersionTagLatestOnly(vs, latestVersion, latestCommit) ==
  Lookup(vs, latestVersion) = latestCommit

\* TipHasVersionTag that looks at the versions other than the latest only.
TipHasVersionTagOthersOnly(vs, latestVersion, latestCommit) ==
  \E v \in DOMAIN vs \ {latestVersion} : vs[v] = latestCommit

\* latestCommitHasVersionTag: the tip has the latest version or, failing
\* that, the commit of some version.
TipHasVersionTag(vs, latestVersion, latestCommit) ==
  \/ TipHasLatestVersion(vs, latestVersion, latestCommit)
  \/ \E v \in DOMAIN vs : vs[v] = latestCommit

\* Check, lines 216-246: the default branch and the state of its tip.
CheckBranch ==
  /\ pc = "branch"
  /\ \E defaultBranch \in DefaultBranches(remotes, heads) :
       IF defaultBranch # <<>> /\ defaultBranch \in DOMAIN heads THEN
         LET latestCommit == heads[defaultBranch]
             hasLatest == TipHasLatestVersion(versions, result.LatestVersion, latestCommit)
             hasTag == TipHasVersionTag(versions, result.LatestVersion, latestCommit)
         IN result' = [result EXCEPT
              !.DefaultBranch = defaultBranch,
              !.LatestCommit = latestCommit,
              !.LatestCommitHasVersionTag = hasTag,
              !.LatestCommitHasLatestVersion = hasLatest]
       ELSE result' = [result EXCEPT !.DefaultBranch = defaultBranch]
  /\ pc' = "recommend"
  /\ UNCHANGED <<moduledir, refs, heads, remotes, versions, err, calls, prior, cliVars>>

\* NewVersion without the reset of the lower components.
NewVersionNoReset(code, latestMajor, latestMinor, latestPatch, latestVersionIsPrerelease) ==
  CASE code = "Major" -> <<latestMajor + 1, latestMinor, latestPatch>>
    [] code = "Minor" -> <<latestMajor, latestMinor + 1, latestPatch>>
    [] code = "Patchlevel" ->
         IF ~latestVersionIsPrerelease
           THEN <<latestMajor, latestMinor, latestPatch + 1>>
           ELSE <<latestMajor, latestMinor, latestPatch>>
    [] OTHER -> <<latestMajor, latestMinor, latestPatch>>

\* NewVersion without the exception for a prerelease.
NewVersionAlwaysPatch(code, latestMajor, latestMinor, latestPatch, latestVersionIsPrerelease) ==
  CASE code = "Major" -> <<latestMajor + 1, 0, 0>>
    [] code = "Minor" -> <<latestMajor, latestMinor + 1, 0>>
    [] code = "Patchlevel" -> <<latestMajor, latestMinor, latestPatch + 1>>
    [] OTHER -> <<latestMajor, latestMinor, latestPatch>>

\* The switch on the classifier verdict of Check.
NewVersion(code, latestMajor, latestMinor, latestPatch, latestVersionIsPrerelease) ==
  CASE code = "Major" -> <<latestMajor + 1, 0, 0>>
    [] code = "Minor" -> <<latestMajor, latestMinor + 1, 0>>
    [] code = "Patchlevel" ->
         IF ~latestVersionIsPrerelease
           THEN <<latestMajor, latestMinor, latestPatch + 1>>
           ELSE <<latestMajor, latestMinor, latestPatch>>
    [] OTHER -> <<latestMajor, latestMinor, latestPatch>>

\* FirstVersion with the minor and patch numbers exchanged.
FirstVersionPatch == <<0, 0, 1>>

\* The version recommended when there are no version tags yet.
FirstVersion == <<0, 1, 0>>

\* NeedsClassifier without the test of the tip for a version tag.
NeedsClassifierAnyTip(r) ==
  r.LatestVersion # <<>> /\ r.DefaultBranch # <<>>

\* Whether Check calls modver.CompareGit.
NeedsClassifier(r) ==
  r.LatestVersion # <<>> /\ r.DefaultBranch # <<>> /\ ~r.LatestCommitHasVersionTag

\* CheckRecommend that stores the numbers of the latest version in the
\* Result before it calls the classifier.
CheckRecommendStoresBase ==
  /\ pc = "recommend"
  /\ IF result.LatestVersion # <<>> THEN
       IF NeedsClassifier(result) THEN
         /\ calls' = calls + 1
         /\ \/ \E code \in Verdicts :
                 LET new == NewVersion(code, result.LatestMajor, result.LatestMinor,
                                       result.LatestPatch,
                                       result.LatestVersionIsPrerelease)
                 IN result' = [result EXCEPT
                      !.ModverResultCode = code,
                      !.ModverResultString = code,
                      !.NewMajor = new[1], !.NewMinor = new[2], !.NewPatch = new[3]]
               /\ UNCHANGED err
            \/ /\ err' = "comparing"
               /\ result' = [result EXCEPT !.NewMajor = result.LatestMajor,
                                           !.NewMinor = result.LatestMinor,
                                           !.NewPatch = result.LatestPatch]
       ELSE UNCHANGED <<result, err, calls>>
     ELSE
       /\ result' = [result EXCEPT !.NewMajor = FirstVersion[1],
                                   !.NewMinor = FirstVersion[2],
                                   !.NewPatch = FirstVersion[3]]
       /\ UNCHANGED <<err, calls>>
  /\ pc' = "done"
  /\ UNCHANGED <<moduledir, refs, heads, remotes, versions, prior, cliVars>>

\* Check, lines 248-286: the recommended new version.
CheckRecommend ==
  /\ pc = "recommend"
  /\ IF result.LatestVersion # <<>> THEN
       IF NeedsClassifier(result) THEN
         /\ calls' = calls + 1
         /\ \/ \E code \in Verdicts :
                 LET new == NewVersion(code, result.LatestMajor, result.LatestMinor,
                                       result.LatestPatch,
                                       result.LatestVersionIsPrerelease)
                 IN result' = [result EXCEPT
                      !.ModverResultCode = code,
                      !.ModverResultString = code,
                      !.NewMajor = new[1], !.NewMinor = new[2], !.NewPatch = new[3]]
               /\ UNCHANGED err
            \/ /\ err' = "comparing"
               /\ UNCHANGED result
       ELSE UNCHANGED <<result, err, calls>>
     ELSE
       /\ result' = [result EXCEPT !.NewMajor = FirstVersion[1],
                                   !.NewMinor = FirstVersion[2],
                                   !.NewPatch = FirstVersion[3]]
       /\ UNCHANGED <<err, calls>>
  /\ pc' = "done"
  /\ UNCHANGED <<moduledir, refs, heads, remotes, versions, prior, cliVars>>

Next ==
  \/ CheckRefs
  \/ CheckLatest
  \/ CheckModpath
  \/ CheckBranch
  \/ CheckRecommend

Spec == Init /\ [][Next]_vars

SpecBranches == InitBranches /\ [][Next]_vars

SpecPaths == InitPaths /\ [][Next]_vars

SpecNames == InitNames /\ [][Next]_vars

SpecRemotes == InitRemotes /\ [][Next]_vars

SpecPrefix == InitPrefix /\ [][Next]_vars

SpecLines == InitLines /\ [][Next]_vars

(***************************************************************************)
(* The command                                                             *)
(***************************************************************************)

\* strconv.Itoa, as fmt.Sprintf("%d") prints a number that is not negative.
RECURSIVE Itoa(_)
Itoa(n) ==
  IF n < 10 THEN <<Digits[n + 1]>>
  ELSE Itoa(n \div 10) \o <<Digits[(n % 10) + 1]>>

\* fmt.Sprintf("v%d.%d.%d", r.NewMajor, r.NewMinor, r.NewPatch)
BareTag(r) ==
  <<"v">> \o Itoa(r.NewMajor) \o <<".">> \o Itoa(r.NewMinor) \o <<".">> \o Itoa(r.NewPatch)

\* An error that is no exitErr, and exitErr{code: c}.
PlainErr == [isExit |-> FALSE, code |-> 0]
ExitErr(c) == [isExit |-> TRUE, code |-> c]

\* What maybeAddTag does for a Result: no command and nil, no command and
\* an error, or the "git tag" command.
NoTag == [cmd |-> FALSE, err |-> <<>>, tag |-> <<>>, commit |-> ""]

\* maybeAddTag with the test of the major version before the other tests.
maybeAddTagMajorFirst(r) ==
  IF r.NewMajor # r.LatestMajor
    THEN [cmd |-> FALSE, err |-> <<ExitErr(3)>>,
          tag |-> r.VersionPrefix \o BareTag(r), commit |-> ""]
  ELSE IF r.DefaultBranch = <<>> THEN NoTag
  ELSE IF r.LatestCommit = "" THEN NoTag
  ELSE IF r.LatestCommitHasVersionTag THEN NoTag
  ELSE IF r.NewMajor = 0 /\ r.NewMinor = 0 /\ r.NewPatch = 0 THEN NoTag
  ELSE IF BareTag(r) = r.LatestVersion THEN NoTag
  ELSE [cmd |-> TRUE, err |-> <<>>,
        tag |-> r.VersionPrefix \o BareTag(r), commit |-> r.LatestCommit]

\* maybeAddTag that runs the command for a new major version too.
maybeAddTagAnyMajor(r) ==
  IF r.DefaultBranch = <<>> THEN NoTag
  ELSE IF r.LatestCommit = "" THEN NoTag
  ELSE IF r.LatestCommitHasVersionTag THEN NoTag
  ELSE IF r.NewMajor = 0 /\ r.NewMinor = 0 /\ r.NewPatch = 0 THEN NoTag
  ELSE IF BareTag(r) = r.LatestVersion THEN NoTag
  ELSE [cmd |-> TRUE, err |-> <<>>,
        tag |-> r.VersionPrefix \o BareTag(r), commit |-> r.LatestCommit]

\* maybeAddTag, up to the execution of the command.
maybeAddTag(r) ==
  IF r.DefaultBranch = <<>> THEN NoTag
  ELSE IF r.LatestCommit = "" THEN NoTag
  ELSE IF r.LatestCommitHasVersionTag THEN NoTag
  ELSE IF r.NewMajor = 0 /\ r.NewMinor = 0 /\ r.NewPatch = 0 THEN NoTag
  ELSE IF BareTag(r) = r.LatestVersion THEN NoTag
  ELSE IF r.NewMajor # r.LatestMajor
    THEN [cmd |-> FALSE, err |-> <<ExitErr(3)>>,
          tag |-> r.VersionPrefix \o BareTag(r), commit |-> ""]
  ELSE [cmd |-> TRUE, err |-> <<>>,
        tag |-> r.VersionPrefix \o BareTag(r), commit |-> r.LatestCommit]

\* TagCommand without the default message.
TagCommandPlainMsg(tag, commit, sign, msg) ==
  [m |-> msg, s |-> sign, tag |-> tag, commit |-> commit]

\* maybeAddTag, lines 271-279: the arguments of the "git tag" command:
\* -m with the message, by default "Version <tag> added by Taggo", -s when
\* signing is asked for, the tag and the commit.
TagCommand(tag, commit, sign, msg) ==
  [m |-> IF msg = <<>> THEN VersionWord \o tag \o AddedByTaggo ELSE msg,
   s |-> sign, tag |-> tag, commit |-> commit]

\* The ref that "git tag" creates for a command, and whether the
\* repository has a ref of that name, in which case the command fails.
TagRef(c) == [name |-> RefsTags \o c.tag, hash |-> c.commit]
TagExists(rs, c) == \E x \in rs : x.name = RefsTags \o c.tag

\* 1 for a warning that Describe emits, 0 otherwise.
Warn(b) == IF b THEN 1 ELSE 0

\* Result.Describe: the number of warnings emitted.
Describe(r) ==
  Warn(r.DefaultBranch = <<>>)
  + (IF r.LatestVersion # <<>> THEN
       Warn(r.LatestVersionIsPrerelease)
       + Warn(r.LatestVersionUnstable)
       + Warn(r.VersionSuffix \in {"mismatch", "missing", "unwanted"})
       + (IF r.DefaultBranch # <<>> THEN
            IF r.LatestCommitHasVersionTag
              THEN Warn(~r.LatestCommitHasLatestVersion)
              ELSE 1 + (IF r.ModverResultCode = "None" THEN 0
                        ELSE 2 + Warn(r.NewMajor > r.LatestMajor /\ r.NewMajor > 1))
          ELSE 0)
     ELSE 1)
  + Warn(r.ModpathMismatch)

\* checkClean that skips every line.
checkCleanSkipsAll(lines) == TRUE

\* checkClean, when the git command runs without error: whether every
\* line of its output starts with "??".
checkClean(lines) ==
  \A i \in 1..Len(lines) : HasPrefix(lines[i], <<"?", "?">>)

\* main: the exit status for the error that run returns; errors.As finds
\* the first exitErr of the tree.
ExitCode(e) ==
  IF e = <<>> THEN 0
  ELSE IF \E i \in 1..Len(e) : e[i].isExit
    THEN e[CHOOSE i \in 1..Len(e) :
             e[i].isExit /\ \A j \in 1..(i - 1) : ~e[j].isExit].code
  ELSE 1

\* WithStatus that ignores -status.
WithStatusIgnored(e, n) == e

\* The error of run after the test of -status: errors.Join(err, exitErr
\* {code: 2}) when -status is set and there are warnings.
WithStatus(e, n) ==
  IF flags.status /\ n > 0 THEN e \o <<ExitErr(2)>> ELSE e

\* The variables of one call of Check.
checkVars == <<pc, heads, remotes, versions, result, err, calls>>

\* The call of Check for the module in md.
CallCheck(md) ==
  /\ moduledir' = md
  /\ pc' = "refs"
  /\ heads' = EmptyMap
  /\ remotes' = EmptyMap
  /\ versions' = EmptyMap
  /\ result' = ZeroResult
  /\ err' = ""
  /\ calls' = 0

\* run, lines 35-110 and the call at line 113 or 157: with -add the test
\* for a clean repository, which also fails when the git command does;
\* then CheckAll with -all, Check without.
RunStart ==
  /\ cpc = "start"
  /\ \/ /\ flags.add
        /\ \E gitFails \in BOOLEAN : gitFails \/ ~checkClean(porcelain)
        /\ runErr' = <<PlainErr>>
        /\ cpc' = "return"
        /\ UNCHANGED <<moduledir, checkVars, todo>>
     \/ /\ flags.add => checkClean(porcelain)
        /\ IF flags.all
             THEN /\ todo' \in KeyOrders(RunModuleDirs)
                  /\ cpc' = "all"
                  /\ UNCHANGED <<moduledir, checkVars>>
             ELSE /\ CallCheck(moduledir)
                  /\ cpc' = "check"
                  /\ UNCHANGED todo
        /\ UNCHANGED runErr
  /\ UNCHANGED <<refs, prior, flags, porcelain, checked, modules, allErr, pending,
                 warnings, tagged, exitCode>>

\* CheckAll, lines 36-38: modules.Each calls the callback for the next
\* module, which calls Check.
EachCall ==
  /\ cpc = "all"
  /\ pc = "idle"
  /\ todo # <<>>
  /\ CallCheck(Head(todo))
  /\ todo' = Tail(todo)
  /\ UNCHANGED <<refs, prior, cpc, flags, porcelain, checked, modules, allErr,
                 pending, warnings, tagged, runErr, exitCode>>

\* EachReturn that stores the Result of a failed Check as well.
EachReturnStoresAll ==
  /\ cpc = "all"
  /\ pc = "done"
  /\ pc' = "idle"
  /\ checked' = Append(checked, [dir |-> moduledir, err |-> err])
  /\ modules' = (moduledir :> result) @@ modules
  /\ IF err = ""
       THEN UNCHANGED <<allErr, todo>>
       ELSE /\ allErr' = err
            /\ todo' = <<>>
  /\ UNCHANGED <<moduledir, refs, heads, remotes, versions, result, err, calls,
                 prior, cpc, flags, porcelain, pending, warnings, tagged, runErr,
                 exitCode>>

\* CheckAll, lines 39-42: Check has returned; the callback stores the
\* Result if there is no error and returns the error to modules.Each,
\* which ends the walk at the first error of its callback.
EachReturn ==
  /\ cpc = "all"
  /\ pc = "done"
  /\ pc' = "idle"
  /\ checked' = Append(checked, [dir |-> moduledir, err |-> err])
  /\ IF err = ""
       THEN /\ modules' = (moduledir :> result) @@ modules
            /\ UNCHANGED <<allErr, todo>>
       ELSE /\ allErr' = err
            /\ todo' = <<>>
            /\ UNCHANGED modules
  /\ UNCHANGED <<moduledir, refs, heads, remotes, versions, result, err, calls,
                 prior, cpc, flags, porcelain, pending, warnings, tagged, runErr,
                 exitCode>>

\* CheckAll returns (line 44); run, lines 113-129: an error of CheckAll
\* ends run; otherwise run ranges over the map.
AllReturn ==
  /\ cpc = "all"
  /\ pc = "idle"
  /\ todo = <<>>
  /\ IF allErr # ""
       THEN /\ runErr' = <<PlainErr>>
            /\ cpc' = "return"
            /\ UNCHANGED pending
       ELSE /\ pending' = DOMAIN modules
            /\ cpc' = "report"
            /\ UNCHANGED runErr
  /\ UNCHANGED <<moduledir, refs, checkVars, prior, flags, porcelain, todo,
                 checked, modules, allErr, warnings, tagged, exitCode>>

\* The "git tag" command c runs (lines 281-288): it fails when the tag
\* exists, and may fail otherwise; when it succeeds the repository has the
\* new tag.  e are the errors joined after the call.
RunTag(c, e) ==
  \/ /\ ~TagExists(refs, c)
     /\ tagged' = Append(tagged, [cmd |-> c, ok |-> TRUE])
     /\ refs' = refs \cup {TagRef(c)}
     /\ runErr' = runErr \o e
  \/ /\ tagged' = Append(tagged, [cmd |-> c, ok |-> FALSE])
     /\ runErr' = runErr \o <<PlainErr>> \o e
     /\ UNCHANGED refs

\* The call of maybeAddTag(r) when -add is set: the commands run, and the
\* error that run holds after joining e, the errors that follow the call,
\* to it.
AddTag(r, e) ==
  IF ~flags.add
    THEN /\ runErr' = runErr \o e
         /\ UNCHANGED <<tagged, refs>>
  ELSE IF maybeAddTag(r).cmd
    THEN RunTag(TagCommand(maybeAddTag(r).tag, maybeAddTag(r).commit,
                           flags.sign, flags.msg), e)
  ELSE /\ runErr' = runErr \o maybeAddTag(r).err \o e
       /\ UNCHANGED <<tagged, refs>>

\* ReportModule that leaves the range at the first error of maybeAddTag.
ReportModuleStopsAtError ==
  /\ cpc = "report"
  /\ \E mdir \in pending :
       /\ warnings' = warnings + Describe(modules[mdir])
       /\ AddTag(modules[mdir], <<>>)
       /\ pending' = (IF runErr' # runErr THEN {} ELSE pending \ {mdir})
  /\ UNCHANGED <<moduledir, checkVars, prior, cpc, flags, porcelain, todo,
                 checked, modules, allErr, exitCode>>

\* run, lines 131-145: one round of the range over the map of CheckAll:
\* describe the module and, with -add, add its tag.
ReportModule ==
  /\ cpc = "report"
  /\ \E mdir \in pending :
       /\ pending' = pending \ {mdir}
       /\ warnings' = warnings + Describe(modules[mdir])
       /\ AddTag(modules[mdir], <<>>)
  /\ UNCHANGED <<moduledir, checkVars, prior, cpc, flags, porcelain, todo,
                 checked, modules, allErr, exitCode>>

\* run, lines 147-153: after the range, the test of -status.
ReportDone ==
  /\ cpc = "report"
  /\ pending = {}
  /\ runErr' = WithStatus(runErr, warnings)
  /\ cpc' = "return"
  /\ UNCHANGED <<moduledir, refs, checkVars, prior, flags, porcelain, todo,
                 checked, modules, allErr, pending, warnings, tagged, exitCode>>

\* run, lines 157-179: Check has returned; an error of Check ends run;
\* otherwise describe the module, add its tag with -add, test -status.
RunSingle ==
  /\ cpc = "check"
  /\ pc = "done"
  /\ cpc' = "return"
  /\ IF err # ""
       THEN /\ runErr' = <<PlainErr>>
            /\ UNCHANGED <<warnings, tagged, refs>>
       ELSE /\ warnings' = Describe(result)
            /\ AddTag(result, WithStatus(<<>>, Describe(result)))
  /\ UNCHANGED <<moduledir, checkVars, prior, flags, porcelain, todo,
                 checked, modules, allErr, pending, exitCode>>

\* main, lines 20-33: exit with the code of the error of run.
Exit ==
  /\ cpc = "return"
  /\ cpc' = "exit"
  /\ exitCode' = ExitCode(runErr)
  /\ UNCHANGED <<moduledir, refs, checkVars, prior, flags, porcelain, todo,
                 checked, modules, allErr, pending, warnings, tagged, runErr>>

NextRun ==
  \/ RunStart
  \/ Next
  \/ EachCall
  \/ EachReturn
  \/ AllReturn
  \/ ReportModule
  \/ ReportDone
  \/ RunSingle
  \/ Exit

SpecRun == InitRun /\ [][NextRun]_vars

SpecTag == InitTag /\ [][NextRun]_vars

\* A second call of Check for the same module of the same repository,
\* after the first has returned.
CheckAgain ==
  /\ cpc = "lib"
  /\ pc = "done"
  /\ prior = <<>>
  /\ prior' = <<[result |-> result, err |-> err]>>
  /\ pc' = "refs"
  /\ heads' = EmptyMap
  /\ remotes' = EmptyMap
  /\ versions' = EmptyMap
  /\ result' = ZeroResult
  /\ err' = ""
  /\ calls' = 0
  /\ UNCHANGED <<moduledir, refs, cliVars>>

NextTwice ==
  \/ Next
  \/ CheckAgain

SpecTwice == InitRemotes /\ [][NextTwice]_vars


(***************************************************************************)
(* Properties                                                              *)
(***************************************************************************)

\* Check has returned without error.
Returned == pc = "done" /\ err = ""

\* Check has got as far as the recommendation (lines 248-286).
Recommending == pc = "done" /\ err \in {"", "comparing"}

Recommended == <<result.NewMajor, result.NewMinor, result.NewPatch>>
LatestTriple == <<result.LatestMajor, result.LatestMinor, result.LatestPatch>>

\* The commit of the local head of the default branch, "" when there is none.
TipCommit == Lookup(heads, result.DefaultBranch)

\* Some version tag of the module is on the tip of the default branch.
TipTagged == \E v \in DOMAIN versions : versions[v] = TipCommit

\* The latest version tag is on the tip of the default branch.
TipLatest == Lookup(versions, result.LatestVersion) = TipCommit

\* C1: when no tag survives prefix stripping and version validation, Check
\* returns the recommendation 0.1.0 whatever the heads, the remotes, the
\* default branch and the tip are, and never calls the classifier.
C1_NoVersionsRecommendFirst ==
  /\ (Returned /\ DOMAIN versions = {}) => Recommended = <<0, 1, 0>>
  /\ (pc = "done" /\ err # "getting refs" /\ DOMAIN versions = {}) => calls = 0

\* C1's case: tags exist but none is a version of the module, the default
\* branch is known, and Check has returned.
C1_Witness ==
  /\ Returned
  /\ DOMAIN versions = {}
  /\ \E r \in refs : HasPrefix(r.name, RefsTags)
  /\ result.DefaultBranch # <<>>
  /\ Recommended = <<0, 1, 0>>

\* C2: when the default branch is known and its tip is the commit of the
\* latest version tag, Check makes no classifier call, reports
\* LatestCommitHasLatestVersion and recommends (0,0,0); for the root module
\* example.com/mod with v1.0.0 on the tip the suffix verdict is ok.
C2_TipHasLatestNoCall ==
  (Returned /\ result.DefaultBranch # <<>> /\ DOMAIN versions # {} /\ TipLatest)
    => /\ calls = 0
       /\ result.LatestCommitHasLatestVersion
       /\ Recommended = <<0, 0, 0>>
       /\ (moduledir = <<>> /\ result.Modpath = PathMod /\ result.LatestVersion = v100)
            => result.VersionSuffix = "ok"

\* C2's case: root module example.com/mod whose tip carries v1.0.0.
C2_Witness ==
  /\ Returned
  /\ moduledir = <<>>
  /\ result.Modpath = PathMod
  /\ result.DefaultBranch # <<>>
  /\ result.LatestVersion = v100
  /\ TipLatest
  /\ result.VersionSuffix = "ok"
  /\ Recommended = <<0, 0, 0>>

\* C3: with versions, a known default branch and an untagged tip, the
\* verdict Major gives (latestMajor+1,0,0), Minor (latestMajor,
\* latestMinor+1,0), Patch on a release (latestMajor, latestMinor,
\* latestPatch+1); the base is the semver maximum: v1.2.3 and v1.3.0 with
\* Minor give 1.4.0.
C3_VerdictMapping ==
  (Returned /\ DOMAIN versions # {} /\ result.DefaultBranch # <<>> /\ ~TipTagged)
    => /\ result.ModverResultCode = "Major"
            => Recommended = <<result.LatestMajor + 1, 0, 0>>
       /\ result.ModverResultCode = "Minor"
            => Recommended = <<result.LatestMajor, result.LatestMinor + 1, 0>>
       /\ (result.ModverResultCode = "Patchlevel" /\ ~result.LatestVersionIsPrerelease)
            => Recommended = <<result.LatestMajor, result.LatestMinor,
                               result.LatestPatch + 1>>
       /\ (DOMAIN versions = {v123, v130} /\ result.ModverResultCode = "Minor")
            => Recommended = <<1, 4, 0>>

\* C3's case: tags v1.2.3 and v1.3.0, untagged tip, verdict Minor.
C3_Witness ==
  /\ Returned
  /\ DOMAIN versions = {v123, v130}
  /\ result.DefaultBranch # <<>>
  /\ ~TipTagged
  /\ result.ModverResultCode = "Minor"
  /\ Recommended = <<1, 4, 0>>

\* C4: with the verdict Patch, a prerelease latest version is recommended
\* with its own major, minor and patch numbers; otherwise the patch number
\* is incremented by exactly 1.
C4_PatchOnPrerelease ==
  (Returned /\ calls = 1 /\ result.ModverResultCode = "Patchlevel")
    => IF Prerelease(result.LatestVersion) # <<>>
         THEN Recommended = LatestTriple
         ELSE Recommended = <<result.LatestMajor, result.LatestMinor,
                              result.LatestPatch + 1>>

\* C4's case: the latest version is the prerelease v1.3.0-rc and the
\* verdict is Patch.
C4_Witness ==
  /\ Returned
  /\ calls = 1
  /\ result.ModverResultCode = "Patchlevel"
  /\ result.LatestVersion = v130rc
  /\ Recommended = <<1, 3, 0>>

\* C5: Check calls the classifier iff there is a version tag, the default
\* branch is known and its tip has no version tag of the module; with
\* versions and an unknown default branch, or a tip tagged with a version
\* other than the latest, there is no call and the recommendation is
\* (0,0,0); the stale tip is reported as LatestCommitHasVersionTag without
\* LatestCommitHasLatestVersion.
C5_ClassifierIffUntaggedTip ==
  /\ Recommending
       => /\ calls \in {0, 1}
          /\ calls = 1 <=> (/\ DOMAIN versions # {}
                            /\ result.DefaultBranch # <<>>
                            /\ ~TipTagged)
  /\ (/\ Returned
      /\ DOMAIN versions # {}
      /\ (result.DefaultBranch = <<>> \/ (TipTagged /\ ~TipLatest)))
       => calls = 0 /\ Recommended = <<0, 0, 0>>
  /\ (Returned /\ result.DefaultBranch # <<>> /\ TipTagged /\ ~TipLatest)
       => result.LatestCommitHasVersionTag /\ ~result.LatestCommitHasLatestVersion

\* C5's case: the tip carries a version tag that is not the latest.
C5_Witness ==
  /\ Returned
  /\ result.DefaultBranch # <<>>
  /\ TipTagged
  /\ ~TipLatest
  /\ result.LatestCommitHasVersionTag
  /\ ~result.LatestCommitHasLatestVersion
  /\ calls = 0

\* Check has passed the computation of the latest version (lines 151-178).
PastLatest == pc \notin {"refs", "latest"} /\ err # "getting refs"

\* C6: LatestVersion is the maximum under semantic-version precedence of
\* the tags that survive prefix stripping and version validation, whatever
\* the order in which the tags are listed, and it is empty iff no tag
\* survives.
C6_LatestIsMaximum ==
  PastLatest
    => /\ (result.LatestVersion = <<>>) <=> (DOMAIN versions = {})
       /\ DOMAIN versions # {}
            => /\ result.LatestVersion \in DOMAIN versions
               /\ \A v \in DOMAIN versions : Compare(v, result.LatestVersion) <= 0

\* Check has passed the analysis of the module path (lines 180-214).
PastModpath == result.Modpath # <<>>

\* The index of the last "/" of p, 0 when it has none.
LastSlash(p) ==
  IF \E i \in 1..Len(p) : p[i] = "/"
    THEN CHOOSE i \in 1..Len(p) : p[i] = "/" /\ \A j \in (i + 1)..Len(p) : p[j] # "/"
    ELSE 0

\* The last element of the path p, without its "/".
LastElement(p) == Drop(p, LastSlash(p))

\* The path p ends with a major-version suffix /vN, N >= 1 without a
\* leading zero.
EndsWithMajorSuffix(p) ==
  /\ LastSlash(p) > 0
  /\ Len(LastElement(p)) >= 2
  /\ LastElement(p)[1] = "v"
  /\ LastElement(p)[2] \in {"1", "2", "3", "4", "5", "6", "7", "8", "9"}
  /\ \A k \in 2..Len(LastElement(p)) : IsDigit(LastElement(p)[k])

\* The N of the major-version suffix /vN of p.
MajorSuffix(p) == Atoi(Tail(LastElement(p)))

\* The path p without its major-version suffix /vN, if it has one.
WithoutMajorSuffix(p) ==
  IF EndsWithMajorSuffix(p) THEN Take(p, LastSlash(p) - 1) ELSE p

\* The table of suffix verdicts.
SuffixVerdict(present, n, latestMajor) ==
  CASE ~present /\ latestMajor <= 1 -> "ok"
    [] ~present /\ latestMajor >= 2 -> "missing"
    [] present /\ n \in {0, 1} -> "unwanted"
    [] present /\ n >= 2 /\ n = latestMajor -> "ok"
    [] present /\ n >= 2 /\ n # latestMajor -> "mismatch"

C8_SuffixUnwantedBelowTwo ==
  (/\ PastModpath
   /\ EndsWithMajorSuffix(result.Modpath)
   /\ result.LatestVersion # <<>>
   /\ result.LatestMajor \in {0, 1})
    => result.VersionSuffix = "unwanted"

\* C9: for a module in the subdirectory S, ModpathMismatch is false exactly
\* when the module path without its trailing /vN ends with "/" + S; for a
\* module at the root it is false; the tags and the suffix verdict play no
\* part.
C9_MismatchIffNotUnderSubdir ==
  PastModpath
    => (result.ModpathMismatch
          <=> (/\ moduledir # <<>>
               /\ ~HasSuffix(WithoutMajorSuffix(result.Modpath), <<"/">> \o moduledir)))

\* C10: a non-empty answer of detectDefaultBranch for a remote is a key of
\* the ref map of that remote and of the heads map, with equal hashes, for
\* every remote and heads map; so is the default branch that Check reports.
C10_DefaultBranchHashesAgree ==
  /\ \A r \in DOMAIN remotes :
       detectDefaultBranch(remotes[r], heads) # <<>>
         => /\ detectDefaultBranch(remotes[r], heads) \in DOMAIN remotes[r]
            /\ detectDefaultBranch(remotes[r], heads) \in DOMAIN heads
            /\ remotes[r][detectDefaultBranch(remotes[r], heads)]
                 = heads[detectDefaultBranch(remotes[r], heads)]
  /\ result.DefaultBranch # <<>>
       => \E r \in DOMAIN remotes :
            /\ result.DefaultBranch \in DOMAIN remotes[r] \cap DOMAIN heads
            /\ remotes[r][result.DefaultBranch] = heads[result.DefaultBranch]

\* C10's case: main and master are both local and on origin, main differs
\* between the two sides, and master is the answer.
C10_Witness ==
  /\ Returned
  /\ origin \in DOMAIN remotes
  /\ {main, master} \subseteq DOMAIN heads \cap DOMAIN remotes[origin]
  /\ remotes[origin][main] # heads[main]
  /\ result.DefaultBranch = master
  /\ remotes[origin][master] = heads[master]

\* Check has passed the search for the default branch (lines 216-246).
PastBranch == pc = "recommend" \/ (pc = "done" /\ err \in {"", "comparing"})

\* The ref map of remote r, empty when there is no such remote.
RemoteRefs(r) == IF r \in DOMAIN remotes THEN remotes[r] ELSE EmptyMap

\* The remote ref map rr has the name b with the hash of its HEAD.
HeadIs(rr, b) == HEAD \in DOMAIN rr /\ b \in DOMAIN rr /\ rr[HEAD] = rr[b]

\* The branch that the rule on the HEAD of a remote selects, <<>> if none.
HeadRule(rr) ==
  IF HeadIs(rr, main) THEN main ELSE IF HeadIs(rr, master) THEN master ELSE <<>>

\* C11 as stated: a remote whose HEAD has the hash of its main gives main,
\* else one whose HEAD has the hash of its master gives master, before any
\* other rule.
C11_HeadRule ==
  /\ \A r \in DOMAIN remotes :
       HeadRule(remotes[r]) # <<>>
         => detectDefaultBranch(remotes[r], heads) = HeadRule(remotes[r])
  /\ (PastBranch /\ HeadRule(RemoteRefs(origin)) # <<>>)
       => result.DefaultBranch = HeadRule(RemoteRefs(origin))

\* The name b is a ref of the remote map rr and a local head, with the same
\* hash on both sides.
Agrees(rr, b) == b \in DOMAIN rr /\ b \in DOMAIN heads /\ rr[b] = heads[b]

\* The first of main, master and default on which the remote and the local
\* heads agree, <<>> if none.
AgreedRule(rr) ==
  IF Agrees(rr, main) THEN main
  ELSE IF Agrees(rr, master) THEN master
  ELSE IF Agrees(rr, default) THEN default
  ELSE <<>>

\* C11, amended: detection on a remote returns the first of main, master
\* and default that is a ref of the remote and a local head with the same
\* hash on both sides, before any other rule; the HEAD of the remote plays
\* no part.
C11_AgreedNameFirst ==
  /\ \A r \in DOMAIN remotes :
       AgreedRule(remotes[r]) # <<>>
         => detectDefaultBranch(remotes[r], heads) = AgreedRule(remotes[r])
  /\ (PastBranch /\ AgreedRule(RemoteRefs(origin)) # <<>>)
       => result.DefaultBranch = AgreedRule(RemoteRefs(origin))

\* C11's case: the HEAD of origin is its main, there is no local main, and
\* master, on which both sides agree, is the answer.
C11_Witness ==
  /\ Returned
  /\ HeadIs(RemoteRefs(origin), main)
  /\ main \notin DOMAIN heads
  /\ Agrees(RemoteRefs(origin), master)
  /\ result.DefaultBranch = master

\* The name consists of letters and digits only.
Alphanumeric(name) == \A k \in 1..Len(name) : IsLetter(name[k]) \/ IsDigit(name[k])

\* The alphanumeric ref names of rr whose hash is that of the local head of
\* the same name.
PlainAgreed(rr) == {x \in DOMAIN rr : Alphanumeric(x) /\ Agrees(rr, x)}

\* The names that the remote map rr shares with the local heads.
Shared(rr) == DOMAIN rr \cap DOMAIN heads

\* C12 as stated: when the rule on main and master selects nothing,
\* detection returns X if X is the only alphanumeric remote ref name whose
\* hash is that of the local head of the same name, whatever other refs the
\* remote shares with the local heads, and nothing otherwise.
C12_OnlyPlainAgreed ==
  \A r \in DOMAIN remotes :
    (HeadRule(remotes[r]) = <<>> /\ AgreedRule(remotes[r]) = <<>>)
      => detectDefaultBranch(remotes[r], heads) =
           (IF Cardinality(PlainAgreed(remotes[r])) = 1
              THEN CHOOSE x \in PlainAgreed(remotes[r]) : TRUE
              ELSE <<>>)

\* C12, amended: when the rule on main, master and default selects
\* nothing, detection returns X if X is the only name that the remote
\* shares with the local heads, X is alphanumeric and the two hashes are
\* equal; it returns nothing when the remote shares no name, or more than
\* one name of any kind, with the local heads.
C12_OnlySharedName ==
  /\ \A r \in DOMAIN remotes :
       AgreedRule(remotes[r]) = <<>>
         => detectDefaultBranch(remotes[r], heads) =
              (IF /\ Cardinality(Shared(remotes[r])) = 1
                  /\ Shared(remotes[r]) = PlainAgreed(remotes[r])
                 THEN CHOOSE x \in Shared(remotes[r]) : TRUE
                 ELSE <<>>)
  /\ (/\ PastBranch
      /\ DOMAIN remotes = {origin}
      /\ AgreedRule(remotes[origin]) = <<>>
      /\ Cardinality(Shared(remotes[origin])) # 1)
       => result.DefaultBranch = <<>>

\* C12's case: origin and the local heads agree on dev and share rel-1 as
\* well, and no default branch is found.
C12_Witness ==
  /\ Returned
  /\ DOMAIN remotes = {origin}
  /\ PlainAgreed(remotes[origin]) = {dev}
  /\ Shared(remotes[origin]) = {dev, rel1}
  /\ result.DefaultBranch = <<>>

\* C13: the default branch is the answer of detection on origin when that
\* succeeds, whatever the other remotes hold; when it fails or there is no
\* origin, the default branch is the answer of another remote if detection
\* succeeds on at least one, and empty, without error, otherwise.
C13_OriginFirst ==
  PastBranch
    => /\ detectDefaultBranch(RemoteRefs(origin), heads) # <<>>
            => result.DefaultBranch = detectDefaultBranch(RemoteRefs(origin), heads)
       /\ detectDefaultBranch(RemoteRefs(origin), heads) = <<>>
            => /\ result.DefaultBranch # <<>>
                    <=> \E r \in DOMAIN remotes \ {origin} :
                          detectDefaultBranch(remotes[r], heads) # <<>>
               /\ result.DefaultBranch # <<>>
                    => \E r \in DOMAIN remotes \ {origin} :
                         detectDefaultBranch(remotes[r], heads) = result.DefaultBranch
       /\ (pc = "done" /\ result.DefaultBranch = <<>>) => err = ""

\* C13's case: detection succeeds on origin and on another remote with
\* different names, and the answer of origin is reported.
C13_Witness ==
  /\ Returned
  /\ detectDefaultBranch(RemoteRefs(origin), heads) = main
  /\ detectDefaultBranch(RemoteRefs(fork), heads) = dev
  /\ result.DefaultBranch = main

\* The second of two calls of Check has returned, and go.mod and the
\* classifier gave both calls the same answers.
ReturnedTwice ==
  /\ pc = "done"
  /\ prior # <<>>
  /\ err = "" /\ prior[1].err = ""
  /\ result.Modpath = prior[1].result.Modpath
  /\ result.DefaultBranch = prior[1].result.DefaultBranch
       => result.ModverResultCode = prior[1].result.ModverResultCode

\* C14: two calls of Check for the same module on the same ref listing,
\* the same go.mod and the same classifier answers return the same Result,
\* also when detection succeeds with different names on two remotes other
\* than origin.
C14_SameResultTwice ==
  ReturnedTwice => result = prior[1].result

\* CheckAll has been called and has returned.
AllReturned == cpc \in {"report", "return", "exit"} /\ checked # <<>>

\* The calls of Check that CheckAll made and that failed, or succeeded.
Failed == {i \in 1..Len(checked) : checked[i].err # ""}
Succeeded == {i \in 1..Len(checked) : checked[i].err = ""}

\* C15: when the analysis of one module fails in CheckAll, the other
\* modules of the repository are still analysed and their Results are in
\* the returned map, and the error is returned by CheckAll.
C15_SiblingsStillRun ==
  (AllReturned /\ Failed # {})
    => /\ allErr # ""
       /\ \A md \in RunModuleDirs :
            \E i \in 1..Len(checked) :
              /\ checked[i].dir = md
              /\ i \in Succeeded => md \in DOMAIN modules

\* C16: the map that CheckAll returns has no entry for a module whose
\* Check returned an error, and has the Result of every module whose Check
\* ran and returned none.
C16_MapHoldsSuccesses ==
  AllReturned
    => /\ \A i \in Failed : checked[i].dir \notin DOMAIN modules
       /\ \A i \in Succeeded :
            /\ checked[i].dir \in DOMAIN modules
            /\ modules[checked[i].dir].ModuleSubdir = checked[i].dir
       /\ DOMAIN modules = {checked[i].dir : i \in Succeeded}

\* C16's case: Check succeeded for the first module and failed for the
\* second, and the map holds the first only.
C16_Witness ==
  /\ AllReturned
  /\ Len(checked) = 2
  /\ 1 \in Succeeded
  /\ 2 \in Failed
  /\ DOMAIN modules = {checked[1].dir}

\* One of the conditions on which maybeAddTag is to do nothing holds of r.
Silent(r) ==
  \/ r.DefaultBranch = <<>>
  \/ r.LatestCommit = ""
  \/ r.LatestCommitHasVersionTag
  \/ (r.NewMajor = 0 /\ r.NewMinor = 0 /\ r.NewPatch = 0)

\* run has called maybeAddTag for the Result of Check, without -all.
AddedSingle ==
  /\ cpc \in {"return", "exit"}
  /\ flags.add /\ ~flags.all
  /\ pc = "done" /\ err = ""

\* run has called maybeAddTag for every Result of CheckAll, with -all.
AddedAll ==
  /\ cpc \in {"return", "exit"}
  /\ flags.add /\ flags.all
  /\ pc = "idle" /\ checked # <<>> /\ allErr = "" /\ pending = {}

\* The error that run returns when maybeAddTag returned nil every time.
StatusOnly == IF flags.status /\ warnings > 0 THEN <<ExitErr(2)>> ELSE <<>>

\* C17: maybeAddTag returns nil and runs no "git tag" command when the
\* default branch is empty, the latest commit is empty, the tip has a
\* version tag or the recommendation is (0,0,0); as these tests come before
\* the test of the major version, a tagged tip never gives the error of a
\* new major version.
C17_SilentRefusal ==
  /\ (AddedSingle /\ Silent(result))
       => tagged = <<>> /\ runErr = StatusOnly
  /\ (AddedAll /\ \A md \in DOMAIN modules : Silent(modules[md]))
       => tagged = <<>> /\ runErr = StatusOnly

\* C17's case: the tip has the version tag v1.0.0, so that the recommended
\* major version 0 differs from the latest, and -add does nothing.
C17_Witness ==
  /\ AddedSingle
  /\ cpc = "exit"
  /\ result.LatestCommitHasVersionTag
  /\ result.NewMajor # result.LatestMajor
  /\ tagged = <<>>
  /\ ~flags.status
  /\ exitCode = 0

\* maybeAddTag is to refuse the Result r for its new major version.
MajorRefused(r) == ~Silent(r) /\ r.NewMajor # r.LatestMajor

\* -status adds no exit code of its own.
NoStatusCode == ~(flags.status /\ warnings > 0)

\* Some "git tag" command has run for a tag with the version prefix of r.
TaggedFor(r) ==
  \E i \in 1..Len(tagged) : tagged[i].cmd.tag = r.VersionPrefix \o BareTag(r)

\* C18: when none of the conditions of silence holds and the recommended
\* major version differs from the latest, maybeAddTag runs no "git tag"
\* command and returns the error with exit code 3, and the process exits
\* with status 3 when -status adds no exit code.
C18_MajorRefusedExitsThree ==
  /\ (AddedSingle /\ MajorRefused(result))
       => /\ tagged = <<>>
          /\ runErr = <<ExitErr(3)>> \o StatusOnly
          /\ (cpc = "exit" /\ NoStatusCode) => exitCode = 3
  /\ (AddedAll /\ \E md \in DOMAIN modules : MajorRefused(modules[md]))
       => /\ \A md \in DOMAIN modules :
               MajorRefused(modules[md]) => ~TaggedFor(modules[md])
          /\ \E i \in 1..Len(runErr) : runErr[i] = ExitErr(3)
          /\ (cpc = "exit" /\ NoStatusCode) => exitCode = 3

\* C18's case: the tag v1.0.0 is behind the tip, the classifier answers
\* Major, and the command with -add exits with status 3.
C18_Witness ==
  /\ AddedSingle
  /\ cpc = "exit"
  /\ result.LatestVersion = v100
  /\ result.ModverResultCode = "Major"
  /\ result.NewMajor = 2
  /\ tagged = <<>>
  /\ ~flags.status
  /\ exitCode = 3

\* C19: when -add refuses a tag for a new major version and -status is
\* set with at least one warning, the process exits with status 6, without
\* -all and with -all.
C19_RefusedWithWarningsExitsSix ==
  /\ (AddedSingle /\ cpc = "exit" /\ MajorRefused(result)
        /\ flags.status /\ warnings > 0)
       => exitCode = 6
  /\ (AddedAll /\ cpc = "exit" /\ (\E md \in DOMAIN modules : MajorRefused(modules[md]))
        /\ flags.status /\ warnings > 0)
       => exitCode = 6

\* Some line of the output of "git status --porcelain" does not start with
\* "??".
TrackedChange ==
  \E i \in 1..Len(porcelain) :
    ~(Len(porcelain[i]) >= 2 /\ porcelain[i][1] = "?" /\ porcelain[i][2] = "?")

ExpectedCommand(r) ==
  [m |-> IF flags.msg = <<>>
           THEN <<"V","e","r","s","i","o","n"," ">> \o r.VersionPrefix \o BareTag(r)
                  \o <<" ","a","d","d","e","d"," ","b","y"," ","T","a","g","g","o">>
           ELSE flags.msg,
   s |-> flags.sign,
   tag |-> r.VersionPrefix \o BareTag(r),
   commit |-> Lookup(HeadsOf(refs), r.DefaultBranch)]

\* maybeAddTag is to create a tag for the Result r.
Creates(r) ==
  ~Silent(r) /\ BareTag(r) # r.LatestVersion /\ r.NewMajor = r.LatestMajor

\* C21: when maybeAddTag creates a tag it runs one "git tag" command for
\* the module: the tag is VersionPrefix and vNewMajor.NewMinor.NewPatch, the
\* commit is LatestCommit, the tip of the default branch, the message is
\* that of the caller or "Version <tag> added by Taggo", and -s is there iff
\* signing was asked for; the refs change only by the tag that a successful
\* command adds, never in Check or CheckAll.
C21_OneTagCommand ==
  /\ [](/\ AddedSingle
            => /\ Len(tagged) = (IF Creates(result) THEN 1 ELSE 0)
               /\ \A i \in 1..Len(tagged) :
                    /\ tagged[i].cmd = ExpectedCommand(result)
                    /\ tagged[i].cmd.commit = result.LatestCommit
        /\ AddedAll
            => /\ Len(tagged) = Cardinality({md \in DOMAIN modules : Creates(modules[md])})
               /\ \A md \in DOMAIN modules :
                    Creates(modules[md])
                      => /\ Cardinality({i \in 1..Len(tagged) :
                                           tagged[i].cmd = ExpectedCommand(modules[md])}) = 1
                         /\ ExpectedCommand(modules[md]).commit = modules[md].LatestCommit)
  /\ [][refs' # refs
         => /\ cpc \in {"check", "report"} /\ cpc' \in {"return", "report"}
            /\ pc' = pc
            /\ Len(tagged') = Len(tagged) + 1
            /\ tagged'[Len(tagged')].ok
            /\ refs' = refs \cup {[name |-> RefsTags \o tagged'[Len(tagged')].cmd.tag,
                                    hash |-> tagged'[Len(tagged')].cmd.commit]}]_vars

\* C21's case: -add with -s and without -m for the module in lib, which has
\* no version yet: the command for lib/v0.1.0 has run with the default
\* message and the repository has the new tag.
C21_Witness ==
  /\ AddedSingle
  /\ cpc = "exit"
  /\ moduledir = lib
  /\ flags.sign /\ flags.msg = <<>>
  /\ Len(tagged) = 1
  /\ tagged[1].ok
  /\ tagged[1].cmd.tag = lib \o <<"/">> \o v010
  /\ tagged[1].cmd.s
  /\ [name |-> RefsTags \o lib \o <<"/">> \o v010, hash |-> result.LatestCommit] \in refs

\* C22: with -add a tag is created only when a new version is recommended:
\* when the classifier was called and its verdict is None, maybeAddTag runs
\* no "git tag" command, whatever the latest version is, a prerelease
\* included.
C22_NoneAddsNoTag ==
  /\ (AddedSingle /\ NeedsClassifier(result) /\ result.ModverResultCode = "None")
       => tagged = <<>>
  /\ AddedAll
       => \A md \in DOMAIN modules :
            (NeedsClassifier(modules[md]) /\ modules[md].ModverResultCode = "None")
              => ~TaggedFor(modules[md])

\* run has described the Result of Check, or every Result of CheckAll, and
\* the process has exited.
Described ==
  /\ cpc = "exit"
  /\ \/ ~flags.all /\ pc = "done" /\ err = ""
     \/ flags.all /\ pc = "idle" /\ checked # <<>> /\ allErr = "" /\ pending = {}

\* The Results that run has described.
DescribedResults ==
  IF flags.all THEN {modules[md] : md \in DOMAIN modules} ELSE {result}

\* maybeAddTag has returned no error: it was not called, did nothing, or
\* ran a command that succeeded.
NoTagError ==
  /\ \A i \in 1..Len(tagged) : tagged[i].ok
  /\ flags.add => \A r \in DescribedResults : ~MajorRefused(r)

\* A new version is recommended for r: there is no version yet, or the
\* classifier was called and its verdict is not None.
NewVersionRecommended(r) ==
  \/ r.LatestVersion = <<>>
  \/ NeedsClassifier(r) /\ r.ModverResultCode # "None"

\* C23: with -status, when the analysis succeeds and the creation of tags
\* raises no error, the exit status is 2 if Describe reported a warning
\* and 0 if it reported none; Describe reports at least one warning for
\* every Result for which a new version is recommended.
C23_StatusExitsTwoOnWarnings ==
  /\ (Described /\ flags.status /\ NoTagError)
       => /\ exitCode = (IF warnings > 0 THEN 2 ELSE 0)
          /\ (~flags.all => warnings = Describe(result))
          /\ (warnings = 0 <=> \A r \in DescribedResults : Describe(r) = 0)
  /\ Returned => (NewVersionRecommended(result) => Describe(result) >= 1)
  /\ \A md \in DOMAIN modules :
       NewVersionRecommended(modules[md]) => Describe(modules[md]) >= 1

\* C23's case: -status and -add, the classifier answers Minor, the tag is
\* added without error, and the process exits with status 2.
C23_Witness ==
  /\ Described
  /\ flags.status /\ flags.add /\ ~flags.all
  /\ result.ModverResultCode = "Minor"
  /\ Len(tagged) = 1 /\ tagged[1].ok
  /\ warnings > 0
  /\ exitCode = 2

\* Check has listed the refs (lines 101-149) without error.
PastRefs == pc # "refs" /\ pc # "idle" /\ err # "getting refs"

\* The tags of the repository: name -> commit.
TagsOf(rs) ==
  [n \in {Drop(x.name, Len(RefsTags)) : x \in {y \in rs : HasPrefix(y.name, RefsTags)}}
     |-> (CHOOSE x \in rs : x.name = RefsTags \o n).hash]

\* The name t starts with p, byte for byte.
StartsWith(t, p) == Len(t) >= Len(p) /\ \A i \in 1..Len(p) : t[i] = p[i]

\* The tag t counts as a version under the required prefix p.
Counts(t, p) == StartsWith(t, p) /\ IsValid(Drop(t, Len(p)))

\* C24: a tag counts as a version of the module iff its name starts with
\* the version prefix byte for byte and the rest is a valid semantic
\* version: lib/v1.0.0 is never a version under tools/ and always one under
\* lib/; with the empty prefix a tag counts iff its whole name is a valid
\* semantic version, so lib/v1.0.0 is never a version of the root module.
C24_PrefixExact ==
  PastRefs
    => /\ DOMAIN versions =
            {Drop(t, Len(result.VersionPrefix))
               : t \in {u \in DOMAIN TagsOf(refs) : Counts(u, result.VersionPrefix)}}
       /\ \A t \in DOMAIN TagsOf(refs) :
            Counts(t, result.VersionPrefix)
              => versions[Drop(t, Len(result.VersionPrefix))] = TagsOf(refs)[t]
       /\ result.VersionPrefix = (IF moduledir = <<>> THEN <<>> ELSE moduledir \o <<"/">>)
       /\ libv100 \in DOMAIN TagsOf(refs)
            => /\ moduledir = lib => v100 \in DOMAIN versions
               /\ moduledir = tools => DOMAIN versions = {}
               /\ moduledir = <<>> => DOMAIN versions \subseteq {v100}

\* C24's case: the module in tools of a repository with the tags
\* lib/v1.0.0 and tools/gen/v1.0.0 has no version.
C24_Witness ==
  /\ Returned
  /\ moduledir = tools
  /\ {libv100, toolsgenv100} \subseteq DOMAIN TagsOf(refs)
  /\ DOMAIN versions = {}
  /\ result.LatestVersion = <<>>

\* The line l of the listing is a hash and a name.
WellFormed(l) == l.name # <<>> /\ \A i \in 1..Len(l.name) : l.name[i] # " "

\* Check has returned the error of the listing of the refs, and nothing of
\* the analysis has been done.
RefsFailed ==
  /\ pc = "done"
  /\ calls = 0
  /\ result = [ZeroResult EXCEPT !.ModuleSubdir = moduledir,
                                 !.VersionPrefix = VersionPrefixOf(moduledir)]

\* C25 as stated: when the listing has a line that is not a hash and a
\* name, Check fails with the error of the listing and does not continue;
\* so it does when the command or the resolution of a tag fails.
C25_MalformedLineFails ==
  /\ (pc # "refs" /\ \E l \in refs : ~WellFormed(l))
       => err = "getting refs" /\ RefsFailed
  /\ err = "getting refs" => RefsFailed

\* C25, amended: when the command or the resolution of a tag fails, Check
\* returns the error of the listing and does not continue; a line that is
\* not a hash and a name is skipped without error, and Check goes on with
\* the refs of all the other lines.
C25_MalformedLineSkipped ==
  /\ err = "getting refs" => RefsFailed
  /\ PastRefs
       => /\ heads = HeadsOf({l \in refs : WellFormed(l)})
          /\ remotes = RemotesOf({l \in refs : WellFormed(l)})
          /\ versions = VersionsOf({l \in refs : WellFormed(l)}, result.VersionPrefix)

\* C25's case: the listing has the tag v1.0.0 and a line of three fields
\* for the tag v2.0.0; Check returns without error and v1.0.0 is the latest
\* version.
C25_Witness ==
  /\ Returned
  /\ \E l \in refs : l.name = RefsTags \o v200 \o <<" ", "x">>
  /\ \E l \in refs : l.name = <<>>
  /\ DOMAIN versions = {v100}
  /\ result.LatestVersion = v100

\* C26: when the call of the classifier fails, Check returns an error and
\* a Result without recommendation: NewMajor, NewMinor and NewPatch are 0
\* and the verdict fields are unset; CheckAll does not store that Result,
\* and run without -all ends with the error.
C26_ClassifierFailureNoRecommendation ==
  /\ err = "comparing"
       => /\ pc \in {"done", "idle"}
          /\ calls = 1
          /\ NeedsClassifier(result)
          /\ Recommended = <<0, 0, 0>>
          /\ result.ModverResultCode = ZeroResult.ModverResultCode
          /\ result.ModverResultString = ZeroResult.ModverResultString
  /\ \A i \in 1..Len(checked) :
       checked[i].err = "comparing" => checked[i].dir \notin DOMAIN modules
  /\ (err = "comparing" /\ cpc \in {"return", "exit"})
       => runErr = <<PlainErr>> /\ tagged = <<>>

\* C26's case: with -all the classifier fails for a module whose latest
\* version is v1.0.0; the Result has no recommendation and the map does
\* not hold it.
C26_Witness ==
  /\ AllReturned
  /\ err = "comparing"
  /\ result.LatestVersion = v100
  /\ Recommended = <<0, 0, 0>>
  /\ checked[Len(checked)] = [dir |-> moduledir, err |-> "comparing"]
  /\ moduledir \notin DOMAIN modules

\* The version v has the full form vMAJOR.MINOR.PATCH, with or without a
\* prerelease and build metadata.
FullForm(v) == Parsed(v).ok /\ ~Parsed(v).short

\* C27: every tag accepted as a version of the module has the full form
\* vMAJOR.MINOR.PATCH, with or without prerelease and build metadata, so
\* Check never returns the error "parsing version", and LatestMajor,
\* LatestMinor and LatestPatch are the numbers of LatestVersion.
C27_VersionsHaveFullForm ==
  /\ \A v \in DOMAIN versions : FullForm(v)
  /\ err # "parsing version"
  /\ (PastLatest /\ result.LatestVersion # <<>>)
       => /\ result.LatestMajor = Atoi(Parsed(result.LatestVersion).major)
          /\ result.LatestMinor = Atoi(Parsed(result.LatestVersion).minor)
          /\ result.LatestPatch = Atoi(Parsed(result.LatestVersion).patch)

\* The refs that Check has read: those of the repository without the tags
\* that the command has added since.
Snapshot ==
  refs \ {TagRef(tagged[i].cmd) : i \in {j \in 1..Len(tagged) : tagged[j].ok}}

\* C28: the tag that maybeAddTag passes to the "git tag" command is never
\* the name of a tag of the snapshot from which the Result was computed,
\* also when the latest version is a prerelease or has build metadata.
C28_NewTagIsNew ==
  \A i \in 1..Len(tagged) :
    \A x \in Snapshot : x.name # RefsTags \o tagged[i].cmd.tag

\* C29: in every Result that Check returns without error,
\* LatestCommitHasLatestVersion implies LatestCommitHasVersionTag; with an
\* empty DefaultBranch, LatestCommit is empty and both flags are false;
\* with a DefaultBranch, LatestCommit is not empty and is the hash of the
\* local head of that branch, which is also the hash of that branch on a
\* remote.
C29_TipFieldsConsistent ==
  Returned
    => /\ result.LatestCommitHasLatestVersion => result.LatestCommitHasVersionTag
       /\ result.DefaultBranch = <<>>
            => /\ result.LatestCommit = ""
               /\ ~result.LatestCommitHasVersionTag
               /\ ~result.LatestCommitHasLatestVersion
       /\ result.DefaultBranch # <<>>
            => /\ result.LatestCommit # ""
               /\ \E l \in refs : /\ l.name = RefsHeads \o result.DefaultBranch
                                   /\ l.hash = result.LatestCommit
               /\ \E l \in refs : /\ HasPrefix(l.name, RefsRemotes)
                                   /\ HasSuffix(l.name, <<"/">> \o result.DefaultBranch)
                                   /\ l.hash = result.LatestCommit

\* C29's case: of two versions the latest is on the tip of the default
\* branch.
C29_Witness ==
  /\ Returned
  /\ result.DefaultBranch = main
  /\ Cardinality(DOMAIN versions) = 2
  /\ result.LatestCommitHasLatestVersion
  /\ result.LatestCommitHasVersionTag
  /\ result.LatestCommit = heads[main]

\* The number of elements of the sequence e that are equal to x.
Count(e, x) == Cardinality({i \in 1..Len(e) : e[i] = x})

\* C30: with -all and -add a refusal or a failure of the creation of a tag
\* for one module does not end the loop: the creation is attempted for
\* every other module of the map, the joined error that run returns holds
\* the error of every module, and the tags that were created stay.
C30_TagErrorsDoNotStopLoop ==
  AddedAll
    => /\ \A md \in DOMAIN modules :
            Creates(modules[md])
              => \E i \in 1..Len(tagged) :
                   tagged[i].cmd.tag = modules[md].VersionPrefix \o BareTag(modules[md])
       /\ Count(runErr, ExitErr(3))
            = Cardinality({md \in DOMAIN modules : MajorRefused(modules[md])})
       /\ Count(runErr, PlainErr)
            = Cardinality({i \in 1..Len(tagged) : ~tagged[i].ok})
       /\ Len(runErr) = Count(runErr, ExitErr(3)) + Count(runErr, PlainErr) + Len(StatusOnly)
       /\ \A i \in 1..Len(tagged) :
            tagged[i].ok
              => [name |-> RefsTags \o tagged[i].cmd.tag, hash |-> tagged[i].cmd.commit]
                   \in refs

\* C30's case: the first "git tag" command of the loop failed, the second,
\* for the other module, succeeded; run returns the error of the first
\* and the repository has the tag of the second.
C30_Witness ==
  /\ AddedAll
  /\ cpc = "exit"
  /\ Len(tagged) = 2
  /\ ~tagged[1].ok
  /\ tagged[2].ok
  /\ tagged[1].cmd.tag # tagged[2].cmd.tag
  /\ runErr = <<PlainErr>>
  /\ [name |-> RefsTags \o tagged[2].cmd.tag, hash |-> tagged[2].cmd.commit] \in refs
  /\ exitCode = 1

====
